---- MODULE Spec2Model ----
(***************************************************************************)
(* The link shortener of src/backend/server.ts on Deno KV, served by the   *)
(* std/http Server.  Each request runs the handler as an async function;   *)
(* Server.#serveHttp does not await #respond, so the handlers of several   *)
(* requests are in flight at once and their store calls (kv.get, kv.set)   *)
(* interleave.  A step of the model is one run of a handler up to the      *)
(* point where its next store call takes effect.                           *)
(*                                                                         *)
(* server.ts holds the handler in two forms: the dedup handler (lines      *)
(* 11-70), which keys the record by the long URL, and the reverse-only     *)
(* handler (lines 82-125; lines 131-162 repeat it without the CORS headers *)
(* and the OPTIONS branch), which keys the record by the short ID.         *)
(* `variant` says which one is deployed; it is fixed at start-up.          *)
(*                                                                         *)
(* Specifications: Spec is the handler on well-formed requests; InputSpec  *)
(* is the handler on bodies without a usable url and on requests for the   *)
(* frontend's files; LiveSpec adds fairness on the store calls, RaceSpec   *)
(* is LiveSpec without the fairness, KeySpec is the handler on long URLs   *)
(* that read like short IDs; ServerSpec is the life cycle of the std/http  *)
(* Server (serve, accept loop, close), FairServerSpec adds fairness on its *)
(* continuations, BackoffSpec follows one accept loop through long runs   *)
(* of transient errors, and RespondSpec is the Server answering the        *)
(* requests of its connections with a handler that returns or throws;      *)
(* RouteSpec is the handler on requests of every method.                   *)
(***************************************************************************)
EXTENDS Integers, Sequences, FiniteSets, TLC

VARIABLES variant, store, reqs, writes, failures,
          closed, listeners, httpConnections, lsn, conn, closeCalls

\* The private fields of the Server, the listeners and connections it is
\* given, and the outcomes of the calls of close() (history)
server == <<closed, listeners, httpConnections, lsn, conn, closeCalls>>

\* The store, the requests and their history
service == <<variant, store, reqs, writes, failures>>

vars == <<variant, store, reqs, writes, failures, server>>

(***************************************************************************)
(* Bounds of the model.                                                    *)
(***************************************************************************)
\* Number of requests the server receives in one behaviour.
MaxReq == 3

\* Number of store calls that fail in one behaviour.
MaxFail == 1

\* Number of calls of serve, listenAndServe or listenAndServeTls.
MaxListeners == 2

\* Number of connections the listeners accept.
MaxConns == 2

\* Number of calls of close().
MaxClose == 2

\* Number of transient accept errors in a row that the specification of the
\* Server's life cycle follows.
MaxTransient == 1

\* Length of a run of transient accept errors where the run is followed to
\* the limit of the delay.
MaxErrors == 10

Variants == {"dedup", "reverse"}

\* Bodies of POST /shorten: the `url` field of the JSON payload.
LongUrls == {"https://a.example", "https://b.example", "https://x.deno.dev/a"}

\* Values crypto.randomUUID() can return; the first two share their first six
\* characters.
UUIDs == {"a1b2c3d4-1111-4111-8111-111111111111",
          "a1b2c3ff-2222-4222-8222-222222222222",
          "d4e5f607-3333-4333-8333-333333333333"}

\* Request paths of GET requests.
GetPaths == {"/a1b2c3", "/d4e5f6", "/https://a.example"}

ShortenRequests == [method : {"POST"}, pathname : {"/shorten"}, url : LongUrls]

ResolveRequests == [method : {"GET"}, pathname : GetPaths, url : {""}]

Requests == ShortenRequests \cup ResolveRequests

\* The value of `url` destructured from a body that has no url field, written
\* as the string the runtime coerces it to.
undefined == "undefined"

\* Bodies of POST /shorten without a usable URL: no url field, an empty string.
BadUrls == {undefined, ""}

\* Paths of the frontend's files
StaticPaths == {"/", "/styles.css", "/script.js"}

\* Requests with bodies the handler does not expect and requests for the
\* frontend's files.
InputRequests ==
    [method : {"POST"}, pathname : {"/shorten"}, url : BadUrls \cup {"https://x.deno.dev/a"}]
    \cup [method : {"GET"}, pathname : {"/", "/styles.css", "/a1b2c3"}, url : {""}]

(***************************************************************************)
(* String functions of the JavaScript runtime, as the handler uses them.   *)
(***************************************************************************)
\* String.prototype.includes
includes(s, t) ==
    \E i \in 1..(Len(s) - Len(t) + 1) : SubSeq(s, i, i + Len(t) - 1) = t

\* String.prototype.slice(from) and slice(from, to), 0-based, to exclusive
sliceFrom(s, from) == SubSeq(s, from + 1, Len(s))

slice(s, from, to) == SubSeq(s, from + 1, IF to < Len(s) THEN to ELSE Len(s))

\* new URL(url) inside Response.redirect: without a base, a string that has no
\* scheme does not parse and the constructor throws.
canParse(url) == includes(url, "://")

\* Deno.readTextFile of the static branches: the file served for a path and
\* its contents.
staticFile(pathname) == IF pathname = "/" THEN "./index.html" ELSE "." \o pathname

readTextFile(path) == "contents of " \o path

\* JSON.stringify({ shortId })
JSONstringify(shortId) ==
    IF shortId = undefined THEN "{}" ELSE "{\"shortId\":\"" \o shortId \o "\"}"

\* The client's response.json() followed by .shortId
responseShortId(body) == SubSeq(body, 13, Len(body) - 2)

(***************************************************************************)
(* Deno KV: keys are ["urls", x]; kv.get yields an entry whose value is    *)
(* null when the key is absent.  An entry is modelled as the sequence of   *)
(* its value: empty for null.                                              *)
(***************************************************************************)
Key(x) == <<"urls", x>>

\* A property of a record's value: undefined when the value has none of
\* that name
field(value, name) == IF name \in DOMAIN value THEN value[name] ELSE undefined

kvGet(key) == IF key \in DOMAIN store THEN <<store[key]>> ELSE << >>

kvSet(key, value) ==
    [k \in DOMAIN store \cup {key} |-> IF k = key THEN value ELSE store[k]]

\* Number of kv.set calls that have taken effect on a key (history).
Version(key) == IF key \in DOMAIN writes THEN writes[key] ELSE 0

Bump(key) ==
    [k \in DOMAIN writes \cup {key} |-> IF k = key THEN Version(key) + 1 ELSE writes[k]]

(***************************************************************************)
(* Responses.                                                              *)
(***************************************************************************)
\* The headers of a response as far as the handler sets them: the
\* Content-Type, and whether corsHeaders is among them.
NoHeaders == [contentType |-> "", cors |-> FALSE]

NoResponse == [status |-> 0, body |-> "", location |-> "", headers |-> NoHeaders]

\* new Response(body, { status })
Response(status, body) ==
    [status |-> status, body |-> body, location |-> "", headers |-> NoHeaders]

\* new Response(body, { status, headers })
ResponseInit(status, body, headers) ==
    [status |-> status, body |-> body, location |-> "", headers |-> headers]

\* new URL(url).href: the serialisation of a URL whose path is empty ends in
\* a slash; the URLs of the model have no other part that parsing rewrites.
href(url) ==
    IF \E i \in 1..(Len(url) - 3) :
           /\ SubSeq(url, i, i + 2) = "://"
           /\ includes(SubSeq(url, i + 3, Len(url)), "/")
    THEN url
    ELSE url \o "/"

\* A redirect that takes the stored url for a path of the service.
ResponseRedirectRelative(url, status) ==
    [status |-> status, body |-> "", location |-> "/" \o url, headers |-> NoHeaders]

\* Response.redirect(url, status): the Location header is the parsed URL,
\* serialised.
ResponseRedirect(url, status) ==
    [status |-> status, body |-> "", location |-> href(url), headers |-> NoHeaders]

\* An onError that puts the error's text into the response.
onErrorDetailed == Response(500, "Error: Deno.Kv operation failed at server.ts")

\* The default onError of the Server
onError == Response(500, "Internal Server Error")

(***************************************************************************)
(* A request: its input, the handler's position and locals, its response,  *)
(* and history fields: quiet says that every earlier request had been      *)
(* answered when this one arrived; verRead is the version of the key at    *)
(* the dedup read, ver the version at the request's last store access;     *)
(* wrote says whether its kv.set created the key or replaced its value;    *)
(* conn is the connection that yielded the request, where the              *)
(* specification follows connections; handler says how the handler ended,  *)
(* calls counts the calls of respondWith and sent says that the last one   *)
(* resolved.                                                               *)
(***************************************************************************)
Idle ==
    [pc |-> "idle", method |-> "", pathname |-> "", longUrl |-> "", shortId |-> "",
     resp |-> NoResponse, quiet |-> FALSE, verRead |-> 0, ver |-> 0, wrote |-> "",
     conn |-> 0, handler |-> "", calls |-> 0, sent |-> FALSE]

Reqs == 1..MaxReq

Arrived == {r \in Reqs : reqs[r].pc # "idle"}

(***************************************************************************)
(* The Server of std/http.  A listener is known by the call that serves    *)
(* it: pc is the position of that call, state the listener's resource,     *)
(* acceptBackoffDelay the local of #accept (0 for undefined), conn the     *)
(* connection accept() has resolved with and #accept has not yet taken up; *)
(* via and error describe a call that threw.  A connection has the state   *)
(* of its resource and the position of its #serveHttp loop.  A request     *)
(* that nextRequest() yields is handed to #respond, which is not awaited,   *)
(* and leaves the connection and its loop as they are: for the Server's    *)
(* fields it is a stuttering step, and the handler's actions above say     *)
(* what becomes of the request.                                            *)
(***************************************************************************)
ERROR_SERVER_CLOSED == "Server closed"

INITIAL_ACCEPT_BACKOFF_DELAY == 5

MAX_ACCEPT_BACKOFF_DELAY == 1000

Listeners == 1..MaxListeners

Conns == 1..MaxConns

Methods == {"serve", "listenAndServe", "listenAndServeTls"}

\* A listener and the #accept that runs on it; errors counts the transient
\* accept errors since the last accepted connection (history).
NoListener ==
    [state |-> "none", pc |-> "idle", via |-> "", acceptBackoffDelay |-> 0,
     errors |-> 0, conn |-> 0, error |-> ""]

NoConn == [state |-> "none", pc |-> "idle"]

\* The Server after its constructor
ServerInit ==
    /\ closed = FALSE
    /\ listeners = {}
    /\ httpConnections = {}
    /\ lsn = [l \in Listeners |-> NoListener]
    /\ conn = [c \in Conns |-> NoConn]
    /\ closeCalls = << >>

Init ==
    /\ variant \in Variants
    /\ store = << >>
    /\ writes = << >>
    /\ failures = 0
    /\ reqs = [r \in Reqs |-> Idle]
    /\ ServerInit


(***************************************************************************)
(* The handler passed to serve().  Each action below is one run of the     *)
(* handler between two awaits.                                             *)
(***************************************************************************)
corsHeaders(v) == v \in {"dedup", "reverse"}

\* The headers option of the handler's responses: { "Content-Type": ...,
\* ...corsHeaders }, or corsHeaders alone
headers(v, contentType) == [contentType |-> contentType, cors |-> corsHeaders(v)]

\* The Content-Type of the static branches
contentType(pathname) ==
    CASE pathname = "/" -> "text/html"
      [] pathname = "/styles.css" -> "text/css"
      [] OTHER -> "application/javascript"

startsWith(s, t) == Len(s) >= Len(t) /\ SubSeq(s, 1, Len(t)) = t

\* A chain of tests that takes every POST for a Shorten.
RouteAnyPost(v, method, pathname) ==
    CASE corsHeaders(v) /\ method = "OPTIONS" -> "options"
      [] method = "POST" -> "json"
      [] method = "GET" /\ startsWith(pathname, "/") -> "kvLookup"
      [] OTHER -> "notFound"

\* The branch of the handler a request takes, in the order the code tests them.
Route(v, method, pathname) ==
    CASE corsHeaders(v) /\ method = "OPTIONS" -> "options"
      [] method = "POST" /\ pathname = "/shorten" -> "json"
      [] method = "GET" /\ startsWith(pathname, "/") -> "kvLookup"
      [] method = "GET" /\ pathname \in StaticPaths -> "readTextFile"
      [] OTHER -> "notFound"

Set(r, rec) == reqs' = [reqs EXCEPT ![r] = rec]

\* A #respond that never calls respondWith.
respondNever(r, rec, response) ==
    Set(r, [rec EXCEPT !.pc = "pending"])

\* A #respond that calls respondWith again when the first call rejects.
respondWithRetry(rec, response, ok) ==
    [rec EXCEPT !.resp = response, !.calls = IF ok THEN @ + 1 ELSE @ + 2, !.sent = ok]

\* requestEvent.respondWith(response) inside its try block: the call resolves
\* (ok) or rejects, and a rejection is swallowed.
respondWith(rec, response, ok) ==
    [rec EXCEPT !.resp = response, !.calls = @ + 1, !.sent = ok]

\* Server.#respond: the handler has returned (or thrown, and onError has made
\* the response) and respondWith sends it.  Sending touches no state that
\* another request reads, so it is part of the step that ends the handler.
\* Here the response reaches the client.
respond(r, rec, response) ==
    Set(r, [respondWith([rec EXCEPT !.handler = IF response = onError THEN "threw"
                                                ELSE "returned"],
                        response, TRUE)
            EXCEPT !.pc = "done"])

\* A short ID cut after the UUID's first group and its hyphen.
NewShortIdLong(uuid) == slice(uuid, 0, 9)

\* crypto.randomUUID().slice(0, 6)
NewShortId(uuid) == slice(uuid, 0, 6)

\* The check on the long URL of the dedup handler
Rejected(v, longUrl) == v = "dedup" /\ includes(longUrl, ".deno.dev")

\* POST /shorten once req.json() has resolved: the dedup handler checks the URL
\* and issues the dedup read; the reverse-only handler draws the short ID and
\* issues the write.
Shorten(r, in0) ==
    IF variant = "dedup"
    THEN IF in0.longUrl = undefined
         THEN respond(r, in0, onError)   \* longUrl.includes throws a TypeError
         ELSE IF Rejected(variant, in0.longUrl)
         THEN respond(r, in0, ResponseInit(400, "Error: Long URL cannot contain '.deno.dev'",
                                      headers(variant, "")))
         ELSE Set(r, [in0 EXCEPT !.pc = "kvGet"])
    ELSE \E uuid \in UUIDs :
             Set(r, [in0 EXCEPT !.pc = "kvSet", !.shortId = NewShortId(uuid)])

\* A request arrives and the handler runs up to its first store call.  The
\* await of req.json() reads the request alone, so the step runs through it.
\* Requests are numbered in their order of arrival.
Handler(r, req) ==
    /\ reqs[r].pc = "idle"
    /\ \A q \in Reqs : q < r => reqs[q].pc # "idle"
    /\ LET branch == Route(variant, req.method, req.pathname)
           in0 == [reqs[r] EXCEPT !.method = req.method, !.pathname = req.pathname,
                                  !.longUrl = req.url,
                                  !.quiet = \A q \in Arrived : reqs[q].pc = "done"]
       IN  CASE branch = "options" ->
                  respond(r, in0, ResponseInit(200, "", headers(variant, "")))
             [] branch = "json" -> Shorten(r, in0)
             [] branch = "readTextFile" ->
                  respond(r, in0, ResponseInit(200, readTextFile(staticFile(req.pathname)),
                                               headers(variant, contentType(req.pathname))))
             [] branch = "notFound" ->
                  respond(r, in0, ResponseInit(404, "Not Found", headers(variant, "")))
             [] OTHER -> Set(r, [in0 EXCEPT !.pc = branch])
    /\ UNCHANGED <<variant, store, writes, failures, server>>

\* A dedup check that never hits.
ExistingNever(existingEntry) == FALSE

\* `if (existingEntry.value)`
Existing(existingEntry) == Len(existingEntry) > 0

\* A dedup read under the first six characters of the long URL.
DedupKeyTruncated(longUrl) == Key(slice(longUrl, 0, 6))

\* The key of the dedup read
DedupKey(longUrl) == Key(longUrl)

\* A Shorten that draws a new short ID whether or not the record exists.
ShortenGetRenew(r) ==
    /\ reqs[r].pc = "kvGet"
    /\ \E uuid \in UUIDs :
           Set(r, [reqs[r] EXCEPT !.pc = "kvSet",
                                  !.verRead = Version(Key(reqs[r].longUrl)),
                                  !.shortId = NewShortId(uuid)])
    /\ UNCHANGED <<variant, store, writes, failures, server>>

\* kv.get(["urls", longUrl]) has resolved: answer with the stored short ID, or
\* draw a new one and issue the write.
ShortenGet(r) ==
    /\ reqs[r].pc = "kvGet"
    /\ LET key == Key(reqs[r].longUrl)
           existingEntry == kvGet(DedupKey(reqs[r].longUrl))
       IN  IF Existing(existingEntry)
           THEN respond(r, [reqs[r] EXCEPT !.verRead = Version(key), !.ver = Version(key),
                                        !.shortId = field(existingEntry[1], "shortId")],
                        ResponseInit(200, JSONstringify(field(existingEntry[1], "shortId")),
                                     headers(variant, "application/json")))
           ELSE \E uuid \in UUIDs :
                    Set(r, [reqs[r] EXCEPT !.pc = "kvSet", !.verRead = Version(key),
                                !.shortId = NewShortId(uuid)])
    /\ UNCHANGED <<variant, store, writes, failures, server>>

\* A kv.set that keys every record by the short ID.
SetKeyById(v, shortId, longUrl) == Key(shortId)

\* The key and the value of the handler's kv.set
SetKey(v, shortId, longUrl) == IF v = "dedup" THEN Key(longUrl) ELSE Key(shortId)

\* A record whose url field holds the short ID.
SetValueSwapped(v, shortId, longUrl) ==
    IF v = "dedup" THEN [shortId |-> shortId, url |-> shortId] ELSE [url |-> shortId]

SetValue(v, shortId, longUrl) ==
    IF v = "dedup" THEN [shortId |-> shortId, url |-> longUrl] ELSE [url |-> longUrl]

\* A handler that throws after its kv.set has taken effect.
ShortenSetThenThrow(r) ==
    /\ reqs[r].pc = "kvSet"
    /\ LET key == SetKey(variant, reqs[r].shortId, reqs[r].longUrl)
       IN  /\ store' = kvSet(key, SetValue(variant, reqs[r].shortId, reqs[r].longUrl))
           /\ writes' = Bump(key)
           /\ respond(r, [reqs[r] EXCEPT !.ver = Version(key) + 1], onError)
    /\ UNCHANGED <<variant, failures, server>>

\* A Shorten that writes the record of the long URL and, in the same
\* namespace, a record of the short ID.
ShortenSetBoth(r) ==
    /\ reqs[r].pc = "kvSet"
    /\ LET key == SetKey(variant, reqs[r].shortId, reqs[r].longUrl)
           reverse == Key(reqs[r].shortId)
       IN  /\ store' = [k \in DOMAIN store \cup {key, reverse} |->
                           IF k = key
                           THEN SetValue(variant, reqs[r].shortId, reqs[r].longUrl)
                           ELSE IF k = reverse THEN [url |-> reqs[r].longUrl]
                           ELSE store[k]]
           /\ writes' = Bump(key)
           /\ respond(r, [reqs[r] EXCEPT !.ver = Version(key) + 1,
                                       !.wrote = IF key \in DOMAIN store THEN "replaced"
                                                 ELSE "created"],
                       ResponseInit(200, JSONstringify(reqs[r].shortId),
                                    headers(variant, "application/json")))
    /\ UNCHANGED <<variant, failures, server>>

\* kv.set has resolved: the record is in the store and the handler returns
\* the short ID.
ShortenSet(r) ==
    /\ reqs[r].pc = "kvSet"
    /\ LET key == SetKey(variant, reqs[r].shortId, reqs[r].longUrl)
       IN  /\ store' = kvSet(key, SetValue(variant, reqs[r].shortId, reqs[r].longUrl))
           /\ writes' = Bump(key)
           /\ respond(r, [reqs[r] EXCEPT !.ver = Version(key) + 1,
                                       !.wrote = IF key \in DOMAIN store THEN "replaced"
                                                 ELSE "created"],
                       ResponseInit(200, JSONstringify(reqs[r].shortId),
                                    headers(variant, "application/json")))
    /\ UNCHANGED <<variant, failures, server>>

\* A GET that consumes the record it redirects to.
ResolveOnce(r) ==
    /\ reqs[r].pc = "kvLookup"
    /\ LET shortId == sliceFrom(reqs[r].pathname, 1)
           result == kvGet(Key(shortId))
       IN  IF Existing(result)
           THEN /\ store' = [k \in DOMAIN store \ {Key(shortId)} |-> store[k]]
                /\ respond(r, [reqs[r] EXCEPT !.shortId = shortId],
                           ResponseRedirect(result[1].url, 302))
           ELSE /\ store' = store
                /\ respond(r, [reqs[r] EXCEPT !.shortId = shortId],
                           ResponseInit(404, "URL not found", headers(variant, "")))
    /\ UNCHANGED <<variant, writes, failures, server>>

\* kv.get(["urls", shortId]) of a GET has resolved: redirect or 404.
Resolve(r) ==
    /\ reqs[r].pc = "kvLookup"
    /\ LET shortId == sliceFrom(reqs[r].pathname, 1)
           result == kvGet(Key(shortId))
       IN  IF Existing(result)
           THEN IF canParse(result[1].url)
                THEN respond(r, [reqs[r] EXCEPT !.shortId = shortId],
                             ResponseRedirect(result[1].url, 302))
                ELSE respond(r, [reqs[r] EXCEPT !.shortId = shortId], onError)
           ELSE respond(r, [reqs[r] EXCEPT !.shortId = shortId],
                        ResponseInit(404, "URL not found", headers(variant, "")))
    /\ UNCHANGED <<variant, store, writes, failures, server>>

\* A store call rejects: the handler throws and #respond answers with onError.
\* The failed call has no effect on the store.
KvFail(r) ==
    /\ reqs[r].pc \in {"kvGet", "kvSet", "kvLookup"}
    /\ failures < MaxFail
    /\ failures' = failures + 1
    /\ respond(r, reqs[r], onError)
    /\ UNCHANGED <<variant, store, writes, server>>

Next ==
    \/ \E r \in Reqs : \E req \in Requests : Handler(r, req)
    \/ \E r \in Reqs : ShortenGet(r)
    \/ \E r \in Reqs : ShortenSet(r)
    \/ \E r \in Reqs : Resolve(r)
    \/ \E r \in Reqs : KvFail(r)

Spec == Init /\ [][Next]_vars

\* The handler on requests whose bodies it does not expect and on requests for
\* the frontend's files.
InputNext ==
    \/ \E r \in Reqs : \E req \in InputRequests : Handler(r, req)
    \/ \E r \in Reqs : ShortenGet(r)
    \/ \E r \in Reqs : ShortenSet(r)
    \/ \E r \in Reqs : Resolve(r)
    \/ \E r \in Reqs : KvFail(r)

InputSpec == Init /\ [][InputNext]_vars

\* A store call that has been issued returns: it resolves or it rejects.
StoreReturns(r) == ShortenGet(r) \/ ShortenSet(r) \/ Resolve(r) \/ KvFail(r)

\* The requests of the specification with fairness: shortening one URL and
\* resolving one short ID, in any number and order.
LiveRequests ==
    {req \in Requests : req.url \in {"https://a.example", ""}
                        /\ req.pathname \in {"/shorten", "/a1b2c3"}}

LiveNext ==
    \/ \E r \in Reqs : \E req \in LiveRequests : Handler(r, req)
    \/ \E r \in Reqs : ShortenGet(r)
    \/ \E r \in Reqs : ShortenSet(r)
    \/ \E r \in Reqs : Resolve(r)
    \/ \E r \in Reqs : KvFail(r)

LiveSpec == Init /\ [][LiveNext]_vars /\ \A r \in Reqs : WF_vars(StoreReturns(r))

\* The same requests with no assumption on when a store call returns.
RaceSpec == Init /\ [][LiveNext]_vars

\* Requests whose long URL reads like a short ID: the handler does not test
\* that the url of the body is a URL.
KeyRequests ==
    [method : {"POST"}, pathname : {"/shorten"}, url : {"https://a.example", "a1b2c3"}]
    \cup [method : {"GET"}, pathname : {"/a1b2c3"}, url : {""}]

KeyNext ==
    \/ \E r \in Reqs : \E req \in KeyRequests : Handler(r, req)
    \/ \E r \in Reqs : ShortenGet(r)
    \/ \E r \in Reqs : ShortenSet(r)
    \/ \E r \in Reqs : Resolve(r)
    \/ \E r \in Reqs : KvFail(r)

KeySpec == Init /\ [][KeyNext]_vars

\* Requests of every method: preflights, POSTs to other paths and methods the
\* handler has no branch for, next to one Shorten and one Resolve.
RouteRequests ==
    [method : {"OPTIONS", "PUT", "DELETE"}, pathname : {"/shorten", "/a1b2c3"}, url : {""}]
    \cup [method : {"POST"}, pathname : {"/", "/a1b2c3"}, url : {"https://a.example"}]
    \cup [method : {"POST"}, pathname : {"/shorten"}, url : {"https://a.example"}]
    \cup [method : {"GET"}, pathname : {"/a1b2c3"}, url : {""}]

RouteNext ==
    \/ \E r \in Reqs : \E req \in RouteRequests : Handler(r, req)
    \/ \E r \in Reqs : ShortenGet(r)
    \/ \E r \in Reqs : ShortenSet(r)
    \/ \E r \in Reqs : Resolve(r)
    \/ \E r \in Reqs : KvFail(r)

RouteSpec == Init /\ [][RouteNext]_vars

(***************************************************************************)
(* The Server's methods.  Each action is one run of a method between two   *)
(* awaits.                                                                 *)
(***************************************************************************)
\* A finally block that untracks the listener and leaves it open.
finallyUntrack(l, rec) ==
    /\ listeners' = listeners \ {l}
    /\ lsn' = [lsn EXCEPT ![l] = [rec EXCEPT !.acceptBackoffDelay = 0, !.errors = 0]]

\* The finally block of serve: #untrackListener and listener.close().  The
\* locals of #accept are gone.
finally(l, rec) ==
    /\ listeners' = listeners \ {l}
    /\ lsn' = [lsn EXCEPT ![l] = [rec EXCEPT !.state = "closed", !.acceptBackoffDelay = 0,
                                             !.errors = 0]]

\* The test of #accept's while loop: call accept() again, or leave the loop,
\* return from #accept and run the finally block of serve.
acceptLoop(l, rec) ==
    IF closed
    THEN finally(l, [rec EXCEPT !.pc = "returned"])
    ELSE /\ lsn' = [lsn EXCEPT ![l] = [rec EXCEPT !.pc = "accept"]]
         /\ listeners' = listeners

\* A serve that does not test #closed.
serveUnchecked(l, via) ==
    /\ listeners' = listeners \cup {l}
    /\ lsn' = [lsn EXCEPT ![l] = [@ EXCEPT !.state = "open", !.pc = "accept"]]

\* serve(listener), and listenAndServe / listenAndServeTls, which test #closed,
\* create the listener and call serve.  The listener given to serve exists
\* before the call.
serve(l, via) ==
    IF closed
    THEN /\ lsn' = [lsn EXCEPT ![l] =
                       [@ EXCEPT !.state = IF via = "serve" THEN "open" ELSE "none",
                                 !.pc = "threw", !.via = via,
                                 !.error = ERROR_SERVER_CLOSED]]
         /\ listeners' = listeners
    ELSE /\ listeners' = listeners \cup {l}
         /\ lsn' = [lsn EXCEPT ![l] = [@ EXCEPT !.state = "open", !.pc = "accept"]]

\* One of the three methods is called; the call runs up to its first
\* listener.accept().  Listeners are numbered in the order of the calls.
Call(l, via) ==
    /\ lsn[l].pc = "idle"
    /\ \A k \in Listeners : k < l => lsn[k].pc # "idle"
    /\ serve(l, via)
    /\ UNCHANGED <<closed, httpConnections, conn, closeCalls, service>>

\* listener.accept() resolves with a connection.  Connections are numbered in
\* the order they are accepted.
AcceptConn(l, c) ==
    /\ lsn[l].pc = "accept"
    /\ lsn[l].state = "open"
    /\ conn[c].state = "none"
    /\ \A k \in Conns : k < c => conn[k].state # "none"
    /\ conn' = [conn EXCEPT ![c] = [@ EXCEPT !.state = "open"]]
    /\ lsn' = [lsn EXCEPT ![l] = [@ EXCEPT !.pc = "accepted", !.conn = c]]
    /\ UNCHANGED <<closed, listeners, httpConnections, closeCalls, service>>

\* #closeHttpConn: untrack the connection and close it
closeHttpConn(c, pc) ==
    /\ httpConnections' = httpConnections \ {c}
    /\ conn' = [conn EXCEPT ![c] = [@ EXCEPT !.state = "closed", !.pc = pc]]

\* A #serveHttp that awaits nextRequest() without testing #closed.
serveHttpUnchecked(c) ==
    /\ httpConnections' = httpConnections \cup {c}
    /\ conn' = [conn EXCEPT ![c] = [@ EXCEPT !.pc = "nextRequest"]]

\* #trackHttpConnection and #serveHttp up to its first await: the loop awaits
\* nextRequest() unless the server is closed, and then closes the connection
\* without having served it.
serveHttp(c) ==
    IF closed
    THEN closeHttpConn(c, "unserved")
    ELSE /\ httpConnections' = httpConnections \cup {c}
         /\ conn' = [conn EXCEPT ![c] = [@ EXCEPT !.pc = "nextRequest"]]

\* #accept takes up the accepted connection: it resets the backoff delay and
\* upgrades the connection.  Deno.serveHttp throws when the connection's
\* resource is no longer valid, and #accept goes on without it.
AcceptResume(l) ==
    /\ lsn[l].pc = "accepted"
    /\ \/ serveHttp(lsn[l].conn)
       \/ /\ conn' = [conn EXCEPT ![lsn[l].conn] = [@ EXCEPT !.state = "bad"]]
          /\ httpConnections' = httpConnections
    /\ acceptLoop(l, [lsn[l] EXCEPT !.acceptBackoffDelay = 0, !.errors = 0, !.conn = 0])
    /\ UNCHANGED <<closed, closeCalls, service>>

\* A backoff delay that doubles without a limit.
backoffUncapped(acceptBackoffDelay) ==
    IF acceptBackoffDelay = 0 THEN INITIAL_ACCEPT_BACKOFF_DELAY ELSE acceptBackoffDelay * 2

\* The backoff delay after a transient accept error
backoff(acceptBackoffDelay) ==
    LET next == IF acceptBackoffDelay = 0 THEN INITIAL_ACCEPT_BACKOFF_DELAY
                ELSE acceptBackoffDelay * 2
    IN  IF next >= MAX_ACCEPT_BACKOFF_DELAY THEN MAX_ACCEPT_BACKOFF_DELAY ELSE next

\* listener.accept() rejects with a transient error (BadResource when the
\* listener is closed, a TLS handshake error): #accept sets the backoff delay
\* and awaits delay().
AcceptTransient(l) ==
    /\ lsn[l].pc = "accept"
    /\ lsn' = [lsn EXCEPT ![l] =
                  [@ EXCEPT !.pc = "delay", !.errors = @ + 1,
                            !.acceptBackoffDelay = backoff(lsn[l].acceptBackoffDelay)]]
    /\ UNCHANGED <<closed, listeners, httpConnections, conn, closeCalls, service>>

\* A transient accept error within the run of errors the specification follows
TransientError(l) ==
    /\ backoff(lsn[l].acceptBackoffDelay)
           <= INITIAL_ACCEPT_BACKOFF_DELAY * 2 ^ (MaxTransient - 1)
    /\ AcceptTransient(l)

\* delay() resolves, or rejects with the AbortError of close(): continue.
DelayEnd(l) ==
    /\ lsn[l].pc = "delay"
    /\ acceptLoop(l, lsn[l])
    /\ UNCHANGED <<closed, httpConnections, conn, closeCalls, service>>

\* listener.accept() rejects with any other error: #accept throws it and the
\* finally block of serve runs.
AcceptFatal(l) ==
    /\ lsn[l].pc = "accept"
    /\ lsn[l].state = "open"
    /\ finally(l, [lsn[l] EXCEPT !.pc = "threw", !.error = "accept"])
    /\ UNCHANGED <<closed, httpConnections, conn, closeCalls, service>>

\* close()
close ==
    /\ Len(closeCalls) < MaxClose
    /\ IF closed
       THEN /\ closeCalls' = Append(closeCalls, ERROR_SERVER_CLOSED)
            /\ UNCHANGED <<closed, listeners, httpConnections, lsn, conn>>
       ELSE /\ closed' = TRUE
            /\ lsn' = [l \in Listeners |->
                          IF l \in listeners THEN [lsn[l] EXCEPT !.state = "closed"]
                          ELSE lsn[l]]
            /\ listeners' = {}
            /\ conn' = [c \in Conns |->
                           IF c \in httpConnections THEN [conn[c] EXCEPT !.state = "closed"]
                           ELSE conn[c]]
            /\ httpConnections' = {}
            /\ closeCalls' = Append(closeCalls, "")
    /\ UNCHANGED service

\* httpConn.nextRequest() yields null or rejects (the peer or close() has
\* closed the connection): #serveHttp leaves the loop and closes it.
ConnEnd(c) ==
    /\ conn[c].pc = "nextRequest"
    /\ closeHttpConn(c, "ended")
    /\ UNCHANGED <<closed, listeners, lsn, closeCalls, service>>

ServerNext ==
    \/ \E l \in Listeners : \E via \in Methods : Call(l, via)
    \/ \E l \in Listeners : \E c \in Conns : AcceptConn(l, c)
    \/ \E l \in Listeners : AcceptResume(l)
    \/ \E l \in Listeners : TransientError(l)
    \/ \E l \in Listeners : DelayEnd(l)
    \/ \E l \in Listeners : AcceptFatal(l)
    \/ close
    \/ \E c \in Conns : ConnEnd(c)

ServerSpec == Init /\ [][ServerNext]_vars

\* The continuation of a resolved accept() runs, the backoff timer fires, and
\* nextRequest() on a closed connection returns.
FairServerSpec ==
    /\ ServerSpec
    /\ \A l \in Listeners : WF_vars(AcceptResume(l)) /\ WF_vars(DelayEnd(l))
    /\ \A c \in Conns : WF_vars(conn[c].state = "closed" /\ ConnEnd(c))

\* The accept loop of one listener through runs of transient errors long
\* enough for the delay to reach its limit.
Backoff(l) ==
    /\ lsn[l].errors < MaxErrors
    /\ AcceptTransient(l)

BackoffNext ==
    \/ \E l \in {1} : Call(l, "serve")
    \/ \E l \in {1} : Backoff(l)
    \/ \E l \in {1} : DelayEnd(l)
    \/ \E l \in {1} : \E c \in Conns : AcceptConn(l, c)
    \/ \E l \in {1} : AcceptResume(l)
    \/ close

BackoffSpec == Init /\ [][BackoffNext]_vars

(***************************************************************************)
(* Server.#serveHttp and Server.#respond with the requests of each         *)
(* connection, for any handler: a handler returns a response, returns one  *)
(* whose body was already consumed, or throws.  serve() of std/http makes  *)
(* one listener and calls server.serve(listener).                          *)
(***************************************************************************)
Listening == {1}

HandlerOutcomes == {"returned", "bodyUsed", "threw"}

\* What a handler returns
handlerResponse == Response(200, "")

\* A #serveHttp that awaits #respond before it calls nextRequest() again.
NextRequestAwaited(c, r) ==
    /\ conn[c].pc = "nextRequest"
    /\ conn[c].state = "open"
    /\ \A q \in Reqs : reqs[q].conn = c => reqs[q].pc = "done"
    /\ reqs[r].pc = "idle"
    /\ \A q \in Reqs : q < r => reqs[q].pc # "idle"
    /\ Set(r, [reqs[r] EXCEPT !.pc = "handler", !.conn = c])
    /\ UNCHANGED <<variant, store, writes, failures, server>>

\* httpConn.nextRequest() yields a request: #serveHttp starts #respond, which
\* runs the handler up to its first await, and without awaiting #respond it
\* calls nextRequest() again.  Requests are numbered in their order of arrival.
NextRequest(c, r) ==
    /\ conn[c].pc = "nextRequest"
    /\ conn[c].state = "open"
    /\ reqs[r].pc = "idle"
    /\ \A q \in Reqs : q < r => reqs[q].pc # "idle"
    /\ Set(r, [reqs[r] EXCEPT !.pc = "handler", !.conn = c])
    /\ UNCHANGED <<variant, store, writes, failures, server>>

\* #respond after the handler has ended: the handler's response, or the
\* response of onError when the handler threw, goes to respondWith.  A
\* response whose body was used makes #respond throw a TypeError inside the
\* same try block, so from there on it is a handler that threw.
Respond(r, outcome, ok) ==
    /\ reqs[r].pc = "handler"
    /\ Set(r, [respondWith([reqs[r] EXCEPT !.handler = IF outcome = "returned"
                                                       THEN "returned" ELSE "threw"],
                           IF outcome = "returned" THEN handlerResponse ELSE onError,
                           ok)
               EXCEPT !.pc = "done"])
    /\ UNCHANGED <<variant, store, writes, failures, server>>

RespondNext ==
    \/ \E l \in Listening : Call(l, "serve")
    \/ \E l \in Listening : \E c \in Conns : AcceptConn(l, c)
    \/ \E l \in Listening : AcceptResume(l)
    \/ \E c \in Conns : \E r \in Reqs : NextRequest(c, r)
    \/ \E r \in Reqs : \E outcome \in HandlerOutcomes : \E ok \in BOOLEAN :
           Respond(r, outcome, ok)
    \/ \E c \in Conns : ConnEnd(c)

RespondSpec == Init /\ [][RespondNext]_vars

(***************************************************************************)
(* Vocabulary of the properties.                                           *)
(***************************************************************************)
IsShorten(r) == reqs[r].method = "POST" /\ reqs[r].pathname = "/shorten"

IsResolve(r) == reqs[r].method = "GET"

Done(r) == reqs[r].pc = "done"

\* The request was answered, and not by onError after a failed store call.
Answered(r) == Done(r) /\ reqs[r].resp # onError

\* Shorten answered 200 with a short ID.
Shortened(r) == IsShorten(r) /\ Done(r) /\ reqs[r].resp.status = 200

\* The short ID the client reads from the response.
Returned(r) == responseShortId(reqs[r].resp.body)

\* The records of the store that carry a shortId field and belong to long URL u.
ForwardRecords(u) ==
    {k \in DOMAIN store : "shortId" \in DOMAIN store[k] /\ store[k].url = u}

\* The short IDs that Shorten requests have drawn so far.
DrawnShortIds == {reqs[q].shortId : q \in {x \in Reqs : IsShorten(x)}} \ {""}

(***************************************************************************)
(* C1  Round-trip: if Shorten(u) returned short ID s, a Resolve(s) that    *)
(* arrives later is answered 302 with Location u (as Response.redirect     *)
(* serialises it).                                                         *)
(***************************************************************************)
RoundTrip ==
    \A r1, r2 \in Reqs :
        (/\ r1 < r2
         /\ Shortened(r1)
         /\ IsResolve(r2) /\ reqs[r2].quiet /\ Answered(r2)
         /\ reqs[r2].pathname = "/" \o Returned(r1))
        => /\ reqs[r2].resp.status = 302
           /\ reqs[r2].resp.location = href(reqs[r1].longUrl)

(***************************************************************************)
(* C2  Idempotence, as claimed: of two sequential Shorten(u) calls the     *)
(* second returns the short ID of the first, and one forward record for u  *)
(* is in the store.                                                        *)
(***************************************************************************)
IdempotenceAsClaimed ==
    \A r1, r2 \in Reqs :
        (/\ variant = "dedup"
         /\ r1 < r2 /\ reqs[r2].quiet
         /\ Shortened(r1) /\ Shortened(r2)
         /\ reqs[r1].longUrl = reqs[r2].longUrl)
        => /\ Returned(r1) = Returned(r2)
           /\ Cardinality(ForwardRecords(reqs[r1].longUrl)) = 1

(***************************************************************************)
(* C2  Idempotence, amended: two Shorten(u) calls return the same short ID *)
(* whenever the second call's dedup read sees the record for u as the      *)
(* first call's store access left it (no write of another request replaced *)
(* it in between), and one forward record for u is in the store.           *)
(***************************************************************************)
Idempotence ==
    \A r1, r2 \in Reqs :
        (/\ variant = "dedup"
         /\ r1 < r2
         /\ Shortened(r1) /\ Shortened(r2)
         /\ reqs[r1].longUrl = reqs[r2].longUrl
         /\ reqs[r2].verRead = reqs[r1].ver)
        => /\ Returned(r1) = Returned(r2)
           /\ Cardinality(ForwardRecords(reqs[r1].longUrl)) = 1

\* Two sequential Shorten calls of one URL, the second a dedup hit on the
\* record the first one created.
IdempotenceWitness ==
    \E r1, r2 \in Reqs :
        /\ variant = "dedup"
        /\ r1 < r2 /\ reqs[r2].quiet
        /\ Shortened(r1) /\ Shortened(r2)
        /\ reqs[r1].longUrl = reqs[r2].longUrl
        /\ reqs[r1].wrote = "created" /\ reqs[r2].wrote = ""
        /\ reqs[r2].verRead = reqs[r1].ver

(***************************************************************************)
(* C3  Bidirectional consistency: every forward record u -> s has a        *)
(* reverse record keyed by s whose url is u.                               *)
(***************************************************************************)
BidirectionalConsistency ==
    \A k \in DOMAIN store :
        "shortId" \in DOMAIN store[k]
        => /\ Key(store[k].shortId) \in DOMAIN store
           /\ store[Key(store[k].shortId)].url = k[2]

(***************************************************************************)
(* C4  Not-found: Resolve(x) is answered 404 "URL not found" for every x   *)
(* that no Shorten has drawn as a short ID.                                *)
(***************************************************************************)
NotFound ==
    \A r \in Reqs :
        (/\ IsResolve(r) /\ Answered(r)
         /\ sliceFrom(reqs[r].pathname, 1) \notin DrawnShortIds)
        => reqs[r].resp.status = 404 /\ reqs[r].resp.body = "URL not found"

(***************************************************************************)
(* C5  Uniqueness: two distinct long URLs that were shortened have         *)
(* different short IDs.                                                    *)
(***************************************************************************)
Uniqueness ==
    \A r1, r2 \in Reqs :
        (/\ Shortened(r1) /\ Shortened(r2)
         /\ reqs[r1].longUrl # reqs[r2].longUrl)
        => Returned(r1) # Returned(r2)

(***************************************************************************)
(* C6  No silent overwrite: no step replaces the long URL that a short ID  *)
(* in the store maps to.                                                   *)
(***************************************************************************)
NoSilentOverwrite ==
    [][\A k \in DOMAIN store :
          "shortId" \notin DOMAIN store[k]
          => k \in DOMAIN store' /\ store'[k].url = store[k].url]_vars

(***************************************************************************)
(* C7  Domain-loop rejection: Shorten(u) with ".deno.dev" in u is answered *)
(* 400 and no record of u is in the store.                                 *)
(***************************************************************************)
DomainLoopRejection ==
    \A r \in Reqs :
        (/\ IsShorten(r) /\ Answered(r)
         /\ includes(reqs[r].longUrl, ".deno.dev"))
        => /\ reqs[r].resp.status = 400
           /\ \A k \in DOMAIN store : store[k].url # reqs[r].longUrl

(***************************************************************************)
(* C8  Write-once, as claimed: a key in the store is never deleted and its *)
(* value never changes.                                                    *)
(***************************************************************************)
WriteOnce ==
    [][variant = "dedup"
       => \A k \in DOMAIN store : k \in DOMAIN store' /\ store'[k] = store[k]]_vars

(***************************************************************************)
(* C8  amended: a key in the store is never deleted and the url of its     *)
(* record never changes; only the shortId of the record can be replaced.   *)
(***************************************************************************)
UrlWriteOnce ==
    [][variant = "dedup"
       => \A k \in DOMAIN store :
             /\ k \in DOMAIN store'
             /\ store'[k].url = store[k].url]_vars

\* The record of a long URL has been written twice.
UrlWriteOnceWitness ==
    \E r \in Reqs :
        /\ variant = "dedup"
        /\ reqs[r].wrote = "replaced"
        /\ store[Key(reqs[r].longUrl)] = [shortId |-> reqs[r].shortId, url |-> reqs[r].longUrl]

(***************************************************************************)
(* C9  The race of two Shorten calls for one unmapped URL: when both have  *)
(* missed the dedup check and written distinct short IDs, two records of   *)
(* that URL are in the store.                                              *)
(***************************************************************************)
RaceLeavesTwoRecords ==
    \A r1, r2 \in Reqs :
        (/\ variant = "dedup"
         /\ r1 # r2
         /\ Shortened(r1) /\ Shortened(r2)
         /\ reqs[r1].longUrl = reqs[r2].longUrl
         /\ reqs[r1].verRead = 0 /\ reqs[r2].verRead = 0
         /\ reqs[r1].wrote # "" /\ reqs[r2].wrote # ""
         /\ reqs[r1].shortId # reqs[r2].shortId)
        => Cardinality({k \in DOMAIN store : store[k].url = reqs[r1].longUrl}) >= 2

(***************************************************************************)
(* C10  Atomic request, as claimed: while a Shorten request is between its *)
(* dedup read and its write, no store call of another request takes        *)
(* effect.                                                                 *)
(***************************************************************************)
StoreStep(q) ==
    /\ reqs[q].pc \in {"kvGet", "kvSet", "kvLookup"}
    /\ reqs'[q].pc # reqs[q].pc
    /\ reqs'[q].resp # onError

AtomicRequest ==
    [][\A r, q \in Reqs :
          (variant = "dedup" /\ r # q /\ reqs[r].pc = "kvSet") => ~StoreStep(q)]_vars

(***************************************************************************)
(* C10  amended: the dedup read and the write of a Shorten request are two *)
(* store calls; they act as one unit when no other request writes the      *)
(* record's key between them, and then the write creates the record and    *)
(* replaces nothing.                                                       *)
(***************************************************************************)
AtomicUnlessRewritten ==
    \A r \in Reqs :
        (/\ variant = "dedup"
         /\ reqs[r].wrote # ""
         /\ reqs[r].ver = reqs[r].verRead + 1)
        => reqs[r].wrote = "created"

\* Two Shorten requests ran concurrently on different URLs; each wrote with
\* no write to its own key since its read, and each created its record.
AtomicUnlessRewrittenWitness ==
    \E r, q \in Reqs :
        /\ variant = "dedup"
        /\ r < q /\ ~reqs[q].quiet
        /\ reqs[r].wrote = "created" /\ reqs[r].ver = reqs[r].verRead + 1
        /\ reqs[q].wrote = "created" /\ reqs[q].ver = reqs[q].verRead + 1
        /\ reqs[q].longUrl # reqs[r].longUrl

(***************************************************************************)
(* C11  A POST /shorten whose body has no url field, or whose url is not   *)
(* a non-empty string, is answered 400 and writes no record.  (Store       *)
(* failures aside, which are answered 500.)                                *)
(***************************************************************************)
InvalidInputIs400 ==
    \A r \in Reqs :
        (IsShorten(r) /\ Done(r) /\ reqs[r].longUrl \in BadUrls /\ failures = 0)
            => reqs[r].resp.status = 400 /\ reqs[r].wrote = ""

(***************************************************************************)
(* C12  A store call that fails ends its request with the response 500     *)
(* "Internal Server Error", whatever the call and the error were; the      *)
(* failed call changes no record, and the request is over: it makes no     *)
(* further step, so the call is not tried again.                           *)
(***************************************************************************)
StoreFails(r) ==
    /\ reqs[r].pc \in {"kvGet", "kvSet", "kvLookup"}
    /\ failures' = failures + 1
    /\ reqs'[r] # reqs[r]

StoreFailureIs500 ==
    [][\A r \in Reqs :
          /\ StoreFails(r) =>
                /\ reqs'[r].pc = "done"
                /\ reqs'[r].resp = Response(500, "Internal Server Error")
                /\ store' = store
                /\ writes' = writes
          /\ (Done(r) /\ reqs[r].resp.status = 500) => reqs'[r] = reqs[r]]_vars

StoreFailureWitness ==
    \E r, q \in Reqs :
        /\ IsShorten(r) /\ Done(r) /\ reqs[r].resp.status = 500 /\ failures > 0
        /\ Shortened(q) /\ reqs[q].longUrl = reqs[r].longUrl

(***************************************************************************)
(* C13  The step that ends a request in an error response (400, 404 or     *)
(* 500) changes no record, the request has written no record before it,    *)
(* and the step touches no other request.                                  *)
(***************************************************************************)
EndsInError(r) ==
    /\ reqs[r].pc # "done"
    /\ reqs'[r].pc = "done"
    /\ reqs'[r].resp.status >= 400

NoPartialFailure ==
    [][\A r \in Reqs :
          EndsInError(r) =>
              /\ store' = store
              /\ writes' = writes
              /\ reqs'[r].wrote = ""
              /\ \A q \in Reqs \ {r} : reqs'[q] = reqs[q]]_vars

NoPartialFailureWitness ==
    \E r, q \in Reqs :
        /\ IsShorten(r) /\ Done(r) /\ reqs[r].resp.status = 500 /\ reqs[r].wrote = ""
        /\ failures > 0
        /\ Shortened(q) /\ reqs[q].wrote = "created" /\ ~reqs[q].quiet
        /\ store # << >>

(***************************************************************************)
(* C14  Resolve has no side effects: no step of a GET request, whether it  *)
(* ends in a 302 or in a 404, changes a record of the store.               *)
(***************************************************************************)
ResolveNoSideEffect ==
    [][\A r \in Reqs :
          (reqs'[r].method = "GET" /\ reqs'[r] # reqs[r])
              => store' = store /\ writes' = writes]_vars

ResolveNoSideEffectWitness ==
    \E r, q \in Reqs :
        /\ IsResolve(r) /\ Done(r) /\ reqs[r].resp.status = 302
        /\ IsResolve(q) /\ Done(q) /\ reqs[q].resp.status = 404
        /\ store # << >>

(***************************************************************************)
(* C15  Every Shorten and every Resolve request that has arrived is        *)
(* eventually answered, provided each store call it issues returns, however *)
(* many other requests are in flight; and it is answered once: an answered *)
(* request makes no further step.                                          *)
(***************************************************************************)
EventuallyAnswered ==
    /\ \A r \in Reqs :
           (reqs[r].pc # "idle") ~> (Done(r) /\ reqs[r].resp # NoResponse)
    /\ [][\A r \in Reqs : Done(r) => reqs'[r] = reqs[r]]_vars

EventuallyAnsweredWitness ==
    /\ \A r \in Reqs : Done(r) /\ reqs[r].resp # NoResponse
    /\ \E r \in Reqs : IsShorten(r) /\ ~reqs[r].quiet
    /\ \E r \in Reqs : IsResolve(r) /\ ~reqs[r].quiet

(***************************************************************************)
(* C16  Every shortId returned in a 200 response to POST /shorten, newly   *)
(* drawn or read from the dedup record, is a string of exactly six         *)
(* hexadecimal characters.                                                 *)
(***************************************************************************)
HexDigits ==
    {"0", "1", "2", "3", "4", "5", "6", "7", "8", "9", "a", "b", "c", "d", "e", "f"}

IsHex(s) == \A i \in 1..Len(s) : SubSeq(s, i, i) \in HexDigits

ShortIdSixHex ==
    \A r \in Reqs : Shortened(r) => Len(Returned(r)) = 6 /\ IsHex(Returned(r))

ShortIdSixHexWitness ==
    \E r, q \in Reqs :
        /\ Shortened(r) /\ reqs[r].wrote = "created"
        /\ Shortened(q) /\ reqs[q].wrote = "" /\ Returned(q) = Returned(r)

(***************************************************************************)
(* C17  A GET for "/", "/styles.css" or "/script.js" is answered by the    *)
(* static-file branch with the file's contents, not by the short-ID        *)
(* lookup.                                                                 *)
(***************************************************************************)
StaticFileServed ==
    \A r \in Reqs :
        (IsResolve(r) /\ reqs[r].pathname \in StaticPaths /\ Answered(r))
            => /\ reqs[r].resp.status = 200
               /\ reqs[r].resp.body = readTextFile(staticFile(reqs[r].pathname))

(***************************************************************************)
(* C18  Once close() has been called, closed stays true, and every later   *)
(* call of serve, listenAndServe, listenAndServeTls or close throws        *)
(* "Server closed": the listener set stays as it is, listenAndServe and    *)
(* listenAndServeTls create no listener, and close changes nothing.        *)
(***************************************************************************)
ClosedForever ==
    [][closed =>
          /\ closed'
          /\ listeners' \subseteq listeners
          /\ \A l \in Listeners :
                 (lsn[l].pc = "idle" /\ lsn'[l].pc # "idle") =>
                     /\ lsn'[l].pc = "threw"
                     /\ lsn'[l].error = ERROR_SERVER_CLOSED
                     /\ lsn'[l].via # "serve" => lsn'[l].state = "none"
          /\ closeCalls' # closeCalls =>
                 /\ closeCalls' = Append(closeCalls, ERROR_SERVER_CLOSED)
                 /\ UNCHANGED <<listeners, httpConnections, lsn, conn>>]_vars

ClosedForeverWitness ==
    /\ closed
    /\ Len(closeCalls) = 2 /\ closeCalls[2] = ERROR_SERVER_CLOSED
    /\ \E l, k \in Listeners :
           /\ lsn[l].pc = "threw" /\ lsn[l].via = "serve"
           /\ lsn[k].pc = "threw" /\ lsn[k].via = "listenAndServeTls"

(***************************************************************************)
(* C19  The step of close() closes and untracks every listener and every   *)
(* HTTP connection the server was tracking, and from then on no listener   *)
(* and no connection is tracked; a connection that accept() had resolved   *)
(* with when close() ran is eventually taken up, closed and untracked.     *)
(***************************************************************************)
AllClosed ==
    /\ listeners = {}
    /\ httpConnections = {}
    /\ \A l \in Listeners : lsn[l].pc # "accepted"
    /\ \A c \in Conns : conn[c].state # "open"

CloseClosesAll ==
    /\ [][(~closed /\ closed') =>
              /\ \A l \in listeners : lsn'[l].state = "closed"
              /\ \A c \in httpConnections : conn'[c].state = "closed"]_vars
    /\ [](closed => listeners = {} /\ httpConnections = {})
    /\ closed ~> [](closed /\ AllClosed)

CloseClosesAllWitness ==
    /\ closed /\ AllClosed
    /\ \E l, k \in Listeners : l # k /\ lsn[l].pc = "returned" /\ lsn[k].pc = "returned"
    /\ \E c, d \in Conns : conn[c].pc = "unserved" /\ conn[d].pc = "nextRequest"

(***************************************************************************)
(* C20  When a call of serve(listener) that has entered the accept loop    *)
(* ends, by return after close() or by throwing a non-transient accept     *)
(* error, the listener is closed and untracked.                            *)
(***************************************************************************)
ServeEnded(l) ==
    \/ lsn[l].pc = "returned"
    \/ lsn[l].pc = "threw" /\ lsn[l].error # ERROR_SERVER_CLOSED

ServeClosesListener ==
    \A l \in Listeners : ServeEnded(l) => l \notin listeners /\ lsn[l].state = "closed"

ServeClosesListenerWitness ==
    \E l, k \in Listeners :
        /\ lsn[l].pc = "returned"
        /\ lsn[k].pc = "threw" /\ lsn[k].error = "accept"

(***************************************************************************)
(* C21  Dedup short-circuit: when the dedup read of Shorten(u) finds the   *)
(* record of u, the request is answered 200 with that record's shortId and *)
(* the store is left as it is.                                             *)
(***************************************************************************)
DedupReadHits(r) ==
    /\ reqs[r].pc = "kvGet"
    /\ Key(reqs[r].longUrl) \in DOMAIN store
    /\ reqs'[r] # reqs[r]
    /\ failures' = failures

DedupShortCircuit ==
    [][\A r \in Reqs :
          DedupReadHits(r) =>
              /\ reqs'[r].pc = "done"
              /\ reqs'[r].resp.status = 200
              /\ reqs'[r].resp.body = JSONstringify(store[Key(reqs[r].longUrl)].shortId)
              /\ store' = store
              /\ writes' = writes]_vars

DedupShortCircuitWitness ==
    \E r \in Reqs :
        /\ Shortened(r) /\ reqs[r].wrote = "" /\ reqs[r].verRead > 0
        /\ Returned(r) = store[Key(reqs[r].longUrl)].shortId

(***************************************************************************)
(* C22  Collision handling: a Shorten request never commits a short ID     *)
(* that a record of the store already gives to a different long URL.       *)
(***************************************************************************)
HoldsShortId(k, shortId) ==
    IF "shortId" \in DOMAIN store[k] THEN store[k].shortId = shortId
    ELSE k = Key(shortId)

CollisionChecked ==
    [][\A r \in Reqs :
          (reqs[r].pc = "kvSet" /\ reqs'[r].wrote # "")
              => \A k \in DOMAIN store :
                     HoldsShortId(k, reqs[r].shortId) => store[k].url = reqs[r].longUrl]_vars

(***************************************************************************)
(* C23  Commit postcondition: when a Shorten(u) of the dedup handler that  *)
(* missed the dedup check returns short ID s, the store holds a forward    *)
(* record keyed by u with shortId s and a reverse record keyed by s with   *)
(* url u.                                                                  *)
(***************************************************************************)
CommitWritesBoth ==
    [][\A r \in Reqs :
          (/\ variant = "dedup"
           /\ reqs[r].pc = "kvSet"
           /\ reqs'[r].pc = "done" /\ reqs'[r].resp.status = 200)
          => /\ Key(reqs[r].longUrl) \in DOMAIN store'
             /\ store'[Key(reqs[r].longUrl)] =
                    [shortId |-> reqs[r].shortId, url |-> reqs[r].longUrl]
             /\ Key(reqs[r].shortId) \in DOMAIN store'
             /\ store'[Key(reqs[r].shortId)].url = reqs[r].longUrl]_vars

(***************************************************************************)
(* C24  In the reverse-only handler every answered POST /shorten has a     *)
(* short ID of its own, different from the short ID of every other         *)
(* request, and each of these short IDs keeps resolving to the long URL of *)
(* its request.                                                            *)
(***************************************************************************)
ReverseOnlyMintsFresh ==
    \A r \in Reqs :
        (variant = "reverse" /\ Shortened(r))
        => /\ \A q \in Reqs \ {r} : Shortened(q) => Returned(q) # Returned(r)
           /\ Key(Returned(r)) \in DOMAIN store
           /\ store[Key(Returned(r))].url = reqs[r].longUrl

(***************************************************************************)
(* C25  No global lock and no queue: a request whose handler is suspended  *)
(* never holds up another one.  Whenever a connection is open and a        *)
(* request can still arrive, it can arrive now, whatever requests of this  *)
(* or another connection are in flight; and every request in flight can be *)
(* answered now, whatever requests arrived before it.                      *)
(***************************************************************************)
NextIdle == {r \in Reqs : reqs[r].pc = "idle" /\ \A q \in Reqs : q < r => reqs[q].pc # "idle"}

NoGlobalLock ==
    /\ \A c \in Conns : \A r \in NextIdle :
           (conn[c].pc = "nextRequest" /\ conn[c].state = "open")
               => ENABLED NextRequest(c, r)
    /\ \A r \in Reqs :
           reqs[r].pc = "handler"
               => ENABLED (\E ok \in BOOLEAN : Respond(r, "returned", ok))

\* A request is suspended in its handler while a later request of the same
\* connection and a still later one of another connection have been answered.
NoGlobalLockWitness ==
    \E r, q, p \in Reqs :
        /\ r < q /\ q < p
        /\ reqs[r].pc = "handler"
        /\ Done(q) /\ reqs[q].sent /\ reqs[q].conn = reqs[r].conn
        /\ Done(p) /\ reqs[p].sent /\ reqs[p].conn # reqs[r].conn

(***************************************************************************)
(* C26  Dedup handler: from a state in which no Shorten(u) is in flight    *)
(* and some Shorten(u) has returned a short ID, any two Shorten(u) that    *)
(* arrive later return the same short ID, and none of them returns a short *)
(* ID that no caller for u had been given by then.                         *)
(***************************************************************************)
ShortenInFlight(u) ==
    \E r \in Reqs : IsShorten(r) /\ reqs[r].longUrl = u /\ reqs[r].pc \notin {"idle", "done"}

\* The short IDs returned to callers for u so far.
ReturnedFor(u) == {Returned(r) : r \in {q \in Reqs : Shortened(q) /\ reqs[q].longUrl = u}}

Settled(u) == variant = "dedup" /\ ~ShortenInFlight(u) /\ ReturnedFor(u) # {}

ConvergesAfterRace ==
    \A u \in {req.url : req \in LiveRequests \cap ShortenRequests} :
        /\ \A r1 \in Reqs : \A r2 \in {r \in Reqs : r > r1} :
               [](Settled(u) /\ reqs[r1].pc = "idle" /\ reqs[r2].pc = "idle"
                   => []((Shortened(r1) /\ reqs[r1].longUrl = u
                          /\ Shortened(r2) /\ reqs[r2].longUrl = u)
                             => Returned(r1) = Returned(r2)))
        /\ \A s \in {NewShortId(uuid) : uuid \in UUIDs} : \A r \in Reqs :
               [](Settled(u) /\ s \notin ReturnedFor(u) /\ reqs[r].pc = "idle"
                   => []((Shortened(r) /\ reqs[r].longUrl = u) => Returned(r) # s))

\* Two racing Shorten(u) were given different short IDs; a third one, which
\* arrived when both had been answered, is given one of the two.
ConvergesAfterRaceWitness ==
    \E r1, r2, r3 \in Reqs :
        /\ variant = "dedup" /\ r1 < r2 /\ r2 < r3
        /\ Shortened(r1) /\ Shortened(r2) /\ Shortened(r3)
        /\ reqs[r1].longUrl = reqs[r2].longUrl /\ reqs[r2].longUrl = reqs[r3].longUrl
        /\ Returned(r1) # Returned(r2)
        /\ reqs[r3].quiet /\ Returned(r3) \in {Returned(r1), Returned(r2)}

(***************************************************************************)
(* C27  A GET is answered 302 only with the Location of a long URL that a  *)
(* POST /shorten answered 200 before had submitted.                        *)
(***************************************************************************)
Redirected(r) == IsResolve(r) /\ Done(r) /\ reqs[r].resp.status = 302

RedirectsToSubmitted ==
    [][\A r \in Reqs :
          (~Done(r) /\ Redirected(r)')
              => \E q \in Reqs :
                     Shortened(q) /\ reqs'[r].resp.location = href(reqs[q].longUrl)]_vars

\* The reverse-only handler has redirected from a short ID to the URL
\* submitted with it.
RedirectsToSubmittedWitness ==
    \E r, q \in Reqs :
        /\ variant = "reverse" /\ Shortened(q) /\ reqs[q].longUrl = "https://a.example"
        /\ Redirected(r) /\ reqs[r].pathname = "/" \o Returned(q)
        /\ reqs[r].resp.location = "https://a.example/"

(***************************************************************************)
(* C28  No record's url contains ".deno.dev", and no GET is answered 302   *)
(* with a Location that contains it.                                       *)
(***************************************************************************)
NoLoopTargetStored ==
    /\ \A k \in DOMAIN store : ~includes(store[k].url, ".deno.dev")
    /\ \A r \in Reqs : Redirected(r) => ~includes(reqs[r].resp.location, ".deno.dev")

(***************************************************************************)
(* C29  A dedup lookup is issued by the dedup handler alone, and when it   *)
(* hits, the record it reads carries a shortId, is the record of the long  *)
(* URL of the request, and some Shorten of that long URL has been answered *)
(* 200; so it never reads a record that was written for a short ID.        *)
(***************************************************************************)
KeyKindsApart ==
    /\ [](\A r \in Reqs : reqs[r].pc = "kvGet" => variant = "dedup")
    /\ [][\A r \in Reqs :
             DedupReadHits(r)
                 => /\ "shortId" \in DOMAIN store[Key(reqs[r].longUrl)]
                    /\ store[Key(reqs[r].longUrl)].url = reqs[r].longUrl
                    /\ \E q \in Reqs :
                           Shortened(q) /\ reqs[q].longUrl = reqs[r].longUrl]_vars

\* Short ID a1b2c3 was given out; a later Shorten of the long URL "a1b2c3"
\* missed at its lookup and wrote its own record, and a still later one hit
\* that record.
KeyKindsApartWitness ==
    \E q, r, p \in Reqs :
        /\ q < r /\ r < p /\ reqs[r].quiet /\ reqs[p].quiet
        /\ Shortened(q) /\ Returned(q) = "a1b2c3" /\ reqs[q].longUrl # "a1b2c3"
        /\ Shortened(r) /\ reqs[r].longUrl = "a1b2c3" /\ reqs[r].wrote = "created"
        /\ Shortened(p) /\ reqs[p].longUrl = "a1b2c3" /\ reqs[p].wrote = ""
        /\ Returned(p) = Returned(r)

(***************************************************************************)
(* C30  For every request respondWith is called once: not before the       *)
(* handler has ended, and then with the handler's response when it         *)
(* returned one, and with 500 "Internal Server Error" when it threw or the *)
(* body of its response was already used.  The step that answers a         *)
(* request, whether respondWith resolves or rejects, leaves every          *)
(* connection and its loop as they are.                                    *)
(***************************************************************************)
RespondsOnce ==
    /\ [](\A r \in Reqs :
             /\ ~Done(r) => reqs[r].calls = 0
             /\ Done(r) =>
                   /\ reqs[r].calls = 1
                   /\ reqs[r].resp = IF reqs[r].handler = "returned" THEN handlerResponse
                                     ELSE Response(500, "Internal Server Error"))
    /\ [][\A r \in Reqs :
             (~Done(r) /\ reqs'[r].pc = "done")
                 => UNCHANGED <<conn, httpConnections, closed>>]_vars

\* A handler that returned and handlers that threw; a respondWith that
\* rejected, with the loop of its connection still awaiting requests.
RespondsOnceWitness ==
    \E r, q, p \in Reqs :
        /\ Done(r) /\ ~reqs[r].sent /\ reqs[r].handler = "threw"
        /\ conn[reqs[r].conn].pc = "nextRequest" /\ conn[reqs[r].conn].state = "open"
        /\ Done(q) /\ reqs[q].sent /\ reqs[q].handler = "threw"
        /\ Done(p) /\ reqs[p].handler = "returned"

(***************************************************************************)
(* C31  While #accept waits out a backoff, the delay is 5 ms after the     *)
(* first of a run of transient accept errors and twice as much after each  *)
(* further one, up to 1000 ms, which it never exceeds; an accepted         *)
(* connection ends the run and resets the delay.  When the delay is over   *)
(* the loop calls accept() again unless the server is closed, and once the *)
(* server is closed no call of accept() is made.                           *)
(***************************************************************************)
Min(a, b) == IF a < b THEN a ELSE b

AcceptBackoff ==
    /\ [](\A l \in Listeners :
             /\ lsn[l].acceptBackoffDelay <= 1000
             /\ lsn[l].pc = "delay"
                   => /\ lsn[l].errors >= 1
                      /\ lsn[l].acceptBackoffDelay = Min(5 * 2 ^ (lsn[l].errors - 1), 1000))
    /\ [][\A l \in Listeners :
             /\ (lsn[l].pc = "accepted" /\ lsn'[l].pc # "accepted")
                   => lsn'[l].acceptBackoffDelay = 0 /\ lsn'[l].errors = 0
             /\ (lsn[l].pc = "delay" /\ lsn'[l].pc # "delay")
                   => lsn'[l].pc = IF closed THEN "returned" ELSE "accept"
             /\ (closed /\ lsn'[l].pc = "accept") => lsn[l].pc = "accept"]_vars

\* After a connection was accepted, a run of ten errors: the delay reached
\* 1000 ms at the ninth and stayed there at the tenth.
AcceptBackoffWitness ==
    \E l \in Listeners :
        /\ lsn[l].pc = "delay" /\ ~closed
        /\ lsn[l].errors = 10 /\ lsn[l].acceptBackoffDelay = 1000
        /\ conn[1].state # "none"

(***************************************************************************)
(* C32  A request that is neither POST /shorten nor a GET is answered by   *)
(* the step that receives it, which issues no store call and leaves the    *)
(* store as it is: OPTIONS is answered 200 with an empty body and the CORS *)
(* headers, every other such request 404 "Not Found".                      *)
(***************************************************************************)
OtherRequest(r) == reqs[r].pc # "idle" /\ ~IsShorten(r) /\ ~IsResolve(r)

OthersAnsweredOffStore ==
    /\ [](\A r \in Reqs :
             OtherRequest(r)
                 => /\ Done(r)
                    /\ reqs[r].verRead = 0 /\ reqs[r].ver = 0 /\ reqs[r].wrote = ""
                    /\ IF reqs[r].method = "OPTIONS"
                       THEN /\ reqs[r].resp.status = 200 /\ reqs[r].resp.body = ""
                            /\ reqs[r].resp.headers.cors
                       ELSE reqs[r].resp.status = 404 /\ reqs[r].resp.body = "Not Found")
    /\ [][\A r \in Reqs :
             (reqs[r].pc = "idle" /\ OtherRequest(r)')
                 => store' = store /\ writes' = writes /\ failures' = failures]_vars

\* After a Shorten has written its record, a preflight of /shorten and a
\* POST to another path have been answered.
OthersAnsweredOffStoreWitness ==
    \E q, r, p \in Reqs :
        /\ q < r /\ q < p
        /\ Shortened(q) /\ reqs[q].wrote = "created" /\ DOMAIN store # {}
        /\ Done(r) /\ reqs[r].method = "OPTIONS" /\ reqs[r].pathname = "/shorten"
        /\ reqs[r].quiet
        /\ Done(p) /\ reqs[p].method = "POST" /\ reqs[p].pathname = "/a1b2c3"

====
